---- MODULE Spec2Model ----
(***************************************************************************)
(* Model of floss/api_hooks.py and floss/function_argument_getter.py:      *)
(* the default API hooks (heap simulator, memcpy, ExitProcess) behind the  *)
(* emulator driver's hook dispatch, the ApiMonitor return-address guard,   *)
(* and the FunctionArgumentGetter that collects function contexts.         *)
(***************************************************************************)
EXTENDS Integers, Sequences, FiniteSets, TLC

VARIABLES
    heap_addr,      \* _heap_addr of each of the three allocation hook instances
    memory_maps,    \* emulator memory maps added by addMemoryMap: <<[va, size]>>
    allocs,         \* history of _allocate_mem invocations (hook, request, result)
    data,           \* a window of emulated memory, byte address -> byte
    call,           \* the last call handed to the hook dispatch and its outcome
    ncalls,         \* number of calls HandleCall has dispatched
    pc,             \* emulator program counter, a pointer value <<high word, low word>>
    sp,             \* emulator stack counter (byte address)
    stack,          \* emulated stack memory, word address -> 32-bit word
    pointer_size,   \* emu.getPointerSize(): 4 or 8
    op,             \* the instruction the driver is emulating
    phase,          \* position of the driver's loop around that instruction
    guard,          \* what ApiMonitor.posthook did at that instruction
    run,            \* "running", or "aborted" once an exception left a monitor
    cstate,         \* position of FunctionArgumentGetter.get_all_function_contexts
    target,         \* function_va, the function whose contexts are collected
    todo,           \* caller functions the for loop has not reached yet
    cur,            \* fva of the get_contexts_via_monitor call in progress
    runs,           \* functions handed to driver.runFunction, in order
    driver_hooks,   \* hooks installed on the driver
    driver_monitors,\* monitors installed on the driver
    function_contexts, \* function_contexts of the CallMonitor of the run in progress
    all_contexts,   \* all_contexts of get_all_function_contexts
    nevents,        \* calls intercepted in the run in progress
    outcomes,       \* how each finished run left driver.runFunction, in order
    captured,       \* every context a CallMonitor appended, over all runs
    ngetters        \* FunctionArgumentGetter objects created so far

hookVars == <<heap_addr, memory_maps, allocs, data, call, ncalls>>

guardVars == <<pc, sp, stack, pointer_size, op, phase, guard, run>>

collectVars == <<cstate, target, todo, cur, runs, driver_hooks, driver_monitors,
                 function_contexts, all_contexts, nevents, outcomes, captured, ngetters>>

vars == <<heap_addr, memory_maps, allocs, data, call, ncalls,
          pc, sp, stack, pointer_size, op, phase, guard, run,
          cstate, target, todo, cur, runs, driver_hooks, driver_monitors,
          function_contexts, all_contexts, nevents, outcomes, captured, ngetters>>

-----------------------------------------------------------------------------
(* Bounds of the model *)

MaxCalls == 2          \* calls dispatched in one behaviour
MemSize == 3           \* bytes in the modelled memory window
MaxCount == 2          \* largest memcpy count

(* Program constants *)

HEAP_BASE == 1768488960             \* 0x69690000
PAGE_SIZE == 4096                   \* 0x1000
MAX_ALLOCATION_SIZE == 10485760     \* 10 * 1024 * 1024

(* Requested sizes the emulated code passes to the allocation APIs *)
Sizes == {0, 1, 4096, 5000, 6291457, 10485761}

AllocNames == {"ntdll.RtlAllocateHeap", "kernel32.LocalAlloc", "kernel32.GlobalAlloc",
               "kernel32.VirtualAlloc", "msvcrt.malloc", "msvcrt.calloc"}

KnownNames == AllocNames \cup {"kernel32.GetProcessHeap", "kernel32.ExitProcess",
                               "msvcrt.memcpy"}

(* Call names that no default hook compares against *)
UnknownNames == {"kernel32.Sleep"}

NoRet == 0 - 1

-----------------------------------------------------------------------------
(* api_hooks.round *)

(* round with the remainder dropped instead of added on *)
round_down(i, size) ==
    i - (i % size)

round(i, size) ==
    IF i % size = 0 THEN i ELSE i + (i - (i % size))

(* _allocate_mem without the clamp to MAX_ALLOCATION_SIZE *)
allocate_mem_unclamped(self, st, size) ==
    LET sz == round(size, PAGE_SIZE)
        va == st.heap_addr[self]
    IN  [va |-> va,
         st |-> [st EXCEPT
                   !.memory_maps = Append(@, [va |-> va, size |-> sz + 4]),
                   !.allocs = Append(@, [hook |-> self, req |-> size, va |-> va,
                                         size |-> sz]),
                   !.heap_addr = [@ EXCEPT ![self] = @ + sz]]]

(* RtlAllocateHeapHook._allocate_mem, on the hook instance `self`.  st is   *)
(* the state the hooks act on: [heap_addr, memory_maps, allocs, data].      *)
allocate_mem(self, st, size) ==
    LET rounded == round(size, PAGE_SIZE)
        sz == IF rounded > MAX_ALLOCATION_SIZE THEN MAX_ALLOCATION_SIZE ELSE rounded
        va == st.heap_addr[self]
    IN  [va |-> va,
         st |-> [st EXCEPT
                   !.memory_maps = Append(@, [va |-> va, size |-> sz + 4]),
                   !.allocs = Append(@, [hook |-> self, req |-> size, va |-> va,
                                         size |-> sz]),
                   !.heap_addr = [@ EXCEPT ![self] = @ + sz]]]

Unsupported(st) == [outcome |-> "UnsupportedFunction", ret |-> NoRet, st |-> st]

GetProcessHeapHook_hook(callname, argv, st) ==
    IF callname = "kernel32.GetProcessHeap"
    THEN [outcome |-> "True", ret |-> 0, st |-> st]
    ELSE Unsupported(st)

RtlAllocateHeapHook_hook(self, callname, argv, st) ==
    IF callname = "ntdll.RtlAllocateHeap"
    THEN LET r == allocate_mem(self, st, argv[3])
         IN  [outcome |-> "True", ret |-> r.va, st |-> r.st]
    ELSE Unsupported(st)

AllocateHeap_hook(self, callname, argv, st) ==
    IF callname \in {"kernel32.LocalAlloc", "kernel32.GlobalAlloc", "kernel32.VirtualAlloc"}
    THEN LET r == allocate_mem(self, st, argv[1])
         IN  [outcome |-> "True", ret |-> r.va, st |-> r.st]
    ELSE Unsupported(st)

MallocHeap_hook(self, callname, argv, st) ==
    IF callname \in {"msvcrt.malloc", "msvcrt.calloc"}
    THEN LET r == allocate_mem(self, st, argv[1])
         IN  [outcome |-> "True", ret |-> r.va, st |-> r.st]
    ELSE Unsupported(st)

MemcpyHook_hook(callname, argv, st) ==
    IF callname = "msvcrt.memcpy"
    THEN LET dst == argv[1]
             src == argv[2]
             count == argv[3]
             bytes == [k \in 0..(count - 1) |-> st.data[src + k]]
         IN  [outcome |-> "True", ret |-> 0,
              st |-> [st EXCEPT !.data =
                        [a \in DOMAIN @ |->
                            IF a >= dst /\ a < dst + count THEN bytes[a - dst] ELSE @[a]]]]
    ELSE Unsupported(st)

(* ExitProcessHook.hook: raises StopEmulation for ExitProcess; for every   *)
(* other name the method falls off its end and returns None.               *)
ExitProcessHook_hook(callname, argv, st) ==
    IF callname = "kernel32.ExitProcess"
    THEN [outcome |-> "StopEmulation", ret |-> NoRet, st |-> st]
    ELSE [outcome |-> "None", ret |-> NoRet, st |-> st]

DEFAULT_HOOKS ==
    <<"GetProcessHeapHook", "RtlAllocateHeapHook", "AllocateHeap", "MallocHeap",
      "ExitProcessHook", "MemcpyHook">>

HeapHooks == {"RtlAllocateHeapHook", "AllocateHeap", "MallocHeap"}

(* hook(...) of the instance h of DEFAULT_HOOKS *)
hook(h, callname, argv, st) ==
    CASE h = "GetProcessHeapHook" -> GetProcessHeapHook_hook(callname, argv, st)
      [] h = "RtlAllocateHeapHook" -> RtlAllocateHeapHook_hook(h, callname, argv, st)
      [] h = "AllocateHeap" -> AllocateHeap_hook(h, callname, argv, st)
      [] h = "MallocHeap" -> MallocHeap_hook(h, callname, argv, st)
      [] h = "ExitProcessHook" -> ExitProcessHook_hook(callname, argv, st)
      [] h = "MemcpyHook" -> MemcpyHook_hook(callname, argv, st)

(* The driver's dispatch over its hook list: a hook that raises             *)
(* UnsupportedFunction passes the call on to the next hook; a hook that     *)
(* returns has consumed the call; StopEmulation leaves the dispatch.        *)
RECURSIVE dispatch(_, _, _, _, _)
dispatch(hooks, callname, argv, st, tried) ==
    IF hooks = <<>>
    THEN [result |-> "unhandled", ret |-> NoRet, st |-> st, tried |-> tried]
    ELSE LET h == Head(hooks)
             r == hook(h, callname, argv, st)
             t == Append(tried, [hook |-> h, outcome |-> r.outcome])
         IN  CASE r.outcome = "UnsupportedFunction" ->
                      dispatch(Tail(hooks), callname, argv, st, t)
               [] r.outcome = "StopEmulation" ->
                      [result |-> "StopEmulation", ret |-> NoRet, st |-> r.st, tried |-> t]
               [] OTHER ->
                      [result |-> "handled", ret |-> r.ret, st |-> r.st, tried |-> t]

(* Argument lists the emulated code can pass to a call of the given name *)
Argvs(callname) ==
    CASE callname = "ntdll.RtlAllocateHeap" -> {<<0, 0, s>> : s \in Sizes}
      [] callname \in AllocNames \ {"ntdll.RtlAllocateHeap"} -> {<<s>> : s \in Sizes}
      [] callname = "msvcrt.memcpy" ->
            {<<d, s, c>> : d \in 0..(MemSize - 1), s \in 0..(MemSize - 1), c \in 0..MaxCount}
      [] OTHER -> {<<>>}

(* The bytes read and written by memcpy lie inside the mapped window *)
InWindow(callname, argv) ==
    callname = "msvcrt.memcpy" =>
        /\ argv[1] + argv[3] <= MemSize
        /\ argv[2] + argv[3] <= MemSize

HookState == [heap_addr |-> heap_addr, memory_maps |-> memory_maps,
              allocs |-> allocs, data |-> data]

NoCall == [name |-> "", argv |-> <<>>, result |-> "none", ret |-> NoRet,
           tried |-> <<>>, before |-> <<>>]

InitHooks ==
    /\ heap_addr = [h \in HeapHooks |-> HEAP_BASE]
    /\ memory_maps = <<>>
    /\ allocs = <<>>
    /\ data = [a \in 0..(MemSize - 1) |-> a + 1]
    /\ call = NoCall
    /\ ncalls = 0

(* An intercepted API call of the emulated code, handed to the default hooks *)
HandleCall ==
    /\ UNCHANGED guardVars
    /\ UNCHANGED collectVars
    /\ ncalls < MaxCalls
    /\ \E callname \in KnownNames \cup UnknownNames :
         \E argv \in Argvs(callname) :
            /\ InWindow(callname, argv)
            /\ LET r == dispatch(DEFAULT_HOOKS, callname, argv, HookState, <<>>)
               IN  /\ heap_addr' = r.st.heap_addr
                   /\ memory_maps' = r.st.memory_maps
                   /\ allocs' = r.st.allocs
                   /\ data' = r.st.data
                   /\ call' = [name |-> callname, argv |-> argv, result |-> r.result,
                               ret |-> r.ret, tried |-> r.tried, before |-> data]
    /\ ncalls' = ncalls + 1

-----------------------------------------------------------------------------
(* The vivisect workspace the monitors and the collector query: function F  *)
(* (at F_VA) is called from CALL_1 in function CA, from CALL_2 and CALL_3   *)
(* in function CB, and from CALL_4, which lies in no indexed function, as   *)
(* does the instruction at ORPHAN_RET.  G has no static caller.             *)

F_VA == 100
G_VA == 200
F_RET == 110            \* `ret` in F
F_RET_IMM == 112        \* `ret 8` in F
F_NOP == 105            \* an instruction of F that is no return
G_RET == 210            \* `ret` in G
G_RET_IMM == 212        \* `ret 8` in G
ORPHAN_RET == 400       \* `ret` outside every indexed function
CALL_1 == 300           \* call F, 5 bytes long
CALL_2 == 320           \* call F, 5 bytes long
CALL_3 == 340           \* call F, 2 bytes long
CALL_4 == 360           \* call F, 5 bytes long, outside every indexed function
CA_VA == 290            \* function CA, holds CALL_1
CB_VA == 310            \* function CB, holds CALL_2 and CALL_3
SP0 == 1000             \* stack counter when the instruction is reached
StackWords == 10        \* words of stack the model keeps mapped from SP0 up
GARBAGE == 7            \* a stack word that is no return address

(* viv_utils.InstructionFunctionIndex: instruction address -> function;     *)
(* an address outside its domain raises KeyError.                           *)
function_index ==
    [a \in {F_VA, F_NOP, F_RET, F_RET_IMM, G_VA, G_RET, G_RET_IMM,
            CA_VA, CALL_1, CB_VA, CALL_2, CALL_3} |->
        CASE a \in {G_VA, G_RET, G_RET_IMM} -> G_VA
          [] a \in {CA_VA, CALL_1} -> CA_VA
          [] a \in {CB_VA, CALL_2, CALL_3} -> CB_VA
          [] OTHER -> F_VA]

(* vw.getCallers(fva): the call instructions that target fva *)
getCallers(fva) ==
    IF fva = F_VA THEN <<CALL_1, CALL_2, CALL_3, CALL_4>> ELSE <<>>

parseOpcode(va) ==
    [va |-> va, size |-> IF va = CALL_3 THEN 2 ELSE 5]

Ptr(v) == <<0, v>>

(* A pointer-sized little-endian read of emulated memory ("<P") *)
ReadPtr(mem, addr, psize) ==
    IF psize = 4 THEN <<0, mem[addr]>> ELSE <<mem[addr + 4], mem[addr]>>

(* Monitor.getStackValue(emu, offset) *)
getStackValue(emu, offset) == ReadPtr(emu.stack, emu.sp + offset, emu.psize)

(* Return addresses computed without the length of the call instruction *)
get_return_vas_call_va(emu, function_start) ==
    LET callers == getCallers(function_start)
    IN  { Ptr(parseOpcode(callers[i]).va) : i \in 1..Len(callers) }

(* ApiMonitor._get_return_vas: the list of return addresses, as a set *)
get_return_vas(emu, function_start) ==
    LET callers == getCallers(function_start)
    IN  { Ptr(parseOpcode(callers[i]).va + parseOpcode(callers[i]).size) :
            i \in 1..Len(callers) }

NUM_ADDRESSES == 4

(* The loop of ApiMonitor._fix_return from `offset` on *)
RECURSIVE fix_return_from(_, _, _, _)
fix_return_from(emu, esp, offset, return_addresses) ==
    IF offset >= emu.psize * NUM_ADDRESSES
    THEN [raised |-> TRUE, emu |-> emu]
    ELSE LET ret_va_candidate == ReadPtr(emu.stack, esp + offset, emu.psize)
         IN  IF ret_va_candidate \in return_addresses
             THEN [raised |-> FALSE,
                   emu |-> [emu EXCEPT !.pc = ret_va_candidate,
                                       !.sp = esp + offset + emu.psize]]
             ELSE fix_return_from(emu, esp, offset + emu.psize, return_addresses)

(* _fix_return with a scan that starts one slot too high *)
fix_return_skip_first(emu, return_address, return_addresses) ==
    fix_return_from(emu, emu.sp, emu.psize, return_addresses)

(* ApiMonitor._fix_return *)
fix_return(emu, return_address, return_addresses) ==
    fix_return_from(emu, emu.sp, 0, return_addresses)

(* ApiMonitor._check_return; raised tells whether an exception leaves it *)
check_return(emu, o) ==
    IF o.va \notin DOMAIN function_index
    THEN [raised |-> TRUE, verdict |-> "KeyError", emu |-> emu]
    ELSE LET function_start == function_index[o.va]
             return_addresses == get_return_vas(emu, function_start)
             emu1 == IF o.opers # <<>>
                     THEN [emu EXCEPT !.sp = @ - o.opers[1]]
                     ELSE emu
             return_address == getStackValue(emu1, -4)
         IN  IF return_address \notin return_addresses
             THEN LET r == fix_return(emu1, return_address, return_addresses)
                  IN  [raised |-> r.raised,
                       verdict |-> IF r.raised THEN "failed" ELSE "fixed",
                       emu |-> r.emu]
             ELSE [raised |-> FALSE, verdict |-> "valid", emu |-> emu1]

(* posthook without its try/except *)
posthook_uncaught(emu, o) ==
    IF o.mnem = "ret"
    THEN LET r == check_return(emu, o)
         IN  [raised |-> r.raised, verdict |-> r.verdict, emu |-> r.emu]
    ELSE [raised |-> FALSE, verdict |-> "not_ret", emu |-> emu]

(* ApiMonitor.posthook: every exception of _check_return is caught and      *)
(* logged, so none leaves the monitor.                                      *)
posthook(emu, o) ==
    IF o.mnem = "ret"
    THEN LET r == check_return(emu, o)
         IN  [raised |-> FALSE, verdict |-> r.verdict, emu |-> r.emu]
    ELSE [raised |-> FALSE, verdict |-> "not_ret", emu |-> emu]

Emu == [pc |-> pc, sp |-> sp, stack |-> stack, psize |-> pointer_size]

Ops ==
    { [va |-> F_RET, mnem |-> "ret", opers |-> <<>>],
      [va |-> F_RET_IMM, mnem |-> "ret", opers |-> <<8>>],
      [va |-> G_RET, mnem |-> "ret", opers |-> <<>>],
      [va |-> G_RET_IMM, mnem |-> "ret", opers |-> <<8>>],
      [va |-> ORPHAN_RET, mnem |-> "ret", opers |-> <<>>],
      [va |-> F_NOP, mnem |-> "nop", opers |-> <<>>] }

StackAddrs == { SP0 + 4 * k : k \in 0..(StackWords - 1) }

WordValues == {CALL_1 + 5, CALL_2 + 5, GARBAGE}

(* Stack contents: zeroed memory in which at most two words were written *)
Stacks ==
    { [a \in StackAddrs |-> IF a = a1 THEN v1 ELSE IF a = a2 THEN v2 ELSE 0] :
        a1 \in StackAddrs, a2 \in StackAddrs, v1 \in WordValues \cup {0}, v2 \in WordValues }

(* No collection is in progress *)
IdleCollect ==
    /\ cstate = "idle"
    /\ target = 0
    /\ todo = {}
    /\ cur = 0
    /\ runs = <<>>
    /\ driver_hooks = <<>>
    /\ driver_monitors = {}
    /\ function_contexts = <<>>
    /\ all_contexts = <<>>
    /\ nevents = 0
    /\ outcomes = <<>>
    /\ captured = <<>>
    /\ ngetters = 0

NoGuard == [verdict |-> "none", raised |-> FALSE, ret_pc |-> Ptr(0), ret_sp |-> 0]

IdleGuard ==
    /\ pc = Ptr(0)
    /\ sp = SP0
    /\ stack = [a \in StackAddrs |-> 0]
    /\ pointer_size = 4
    /\ op = [va |-> F_NOP, mnem |-> "nop", opers |-> <<>>]
    /\ phase = "idle"
    /\ guard = NoGuard
    /\ run = "running"

(* The driver, with an ApiMonitor installed, has reached an instruction *)
InitGuard ==
    /\ InitHooks
    /\ IdleCollect
    /\ op \in Ops
    /\ pointer_size \in {4, 8}
    /\ stack \in Stacks
    /\ pc = Ptr(op.va)
    /\ sp = SP0
    /\ phase = "fetched"
    /\ guard = NoGuard
    /\ run = "running"

(* The emulator executes the instruction: a return pops the return address  *)
(* into the program counter and then releases the immediate's bytes.        *)
ExecuteOp ==
    /\ phase = "fetched"
    /\ run = "running"
    /\ IF op.mnem = "ret"
       THEN /\ pc' = ReadPtr(stack, sp, pointer_size)
            /\ sp' = sp + pointer_size + (IF op.opers # <<>> THEN op.opers[1] ELSE 0)
       ELSE /\ pc' = Ptr(op.va + 1)
            /\ sp' = sp
    /\ phase' = "executed"
    /\ UNCHANGED <<stack, pointer_size, op, guard, run>>
    /\ UNCHANGED hookVars
    /\ UNCHANGED collectVars

(* The driver calls the monitor's posthook after the instruction; an        *)
(* exception leaving the monitor aborts the run.                            *)
Posthook ==
    /\ phase = "executed"
    /\ LET r == posthook(Emu, op)
       IN  /\ pc' = r.emu.pc
           /\ sp' = r.emu.sp
           /\ guard' = [verdict |-> r.verdict, raised |-> r.raised,
                        ret_pc |-> pc, ret_sp |-> sp]
           /\ run' = IF r.raised THEN "aborted" ELSE "running"
    /\ phase' = "checked"
    /\ UNCHANGED <<stack, pointer_size, op>>
    /\ UNCHANGED hookVars
    /\ UNCHANGED collectVars

(* The run goes on with the instruction the program counter points at *)
NextInstruction ==
    /\ phase = "checked"
    /\ run = "running"
    /\ phase' = "continued"
    /\ UNCHANGED <<pc, sp, stack, pointer_size, op, guard, run>>
    /\ UNCHANGED hookVars
    /\ UNCHANGED collectVars

NextGuard == ExecuteOp \/ Posthook \/ NextInstruction

SpecGuard == InitGuard /\ [][NextGuard]_vars

-----------------------------------------------------------------------------
(* FunctionArgumentGetter *)

MaxRunEvents == 2       \* calls the emulated code makes in one run
MaxGetters == 2         \* FunctionArgumentGetter objects created in one behaviour

Targets == {F_VA, G_VA}

(* API calls the emulated caller functions make *)
RunApiCalls ==
    { [name |-> "msvcrt.malloc", argv |-> <<4096>>],
      [name |-> "kernel32.LocalAlloc", argv |-> <<0>>],
      [name |-> "kernel32.ExitProcess", argv |-> <<>>],
      [name |-> "kernel32.Sleep", argv |-> <<>>] }

(* The loop of get_caller_vas over callers[i..] *)
RECURSIVE get_caller_vas_from(_, _, _)
get_caller_vas_from(callers, i, caller_function_vas) ==
    IF i > Len(callers)
    THEN caller_function_vas
    ELSE IF callers[i] \notin DOMAIN function_index
         THEN get_caller_vas_from(callers, i + 1, caller_function_vas)
         ELSE get_caller_vas_from(callers, i + 1,
                                  caller_function_vas \cup {function_index[callers[i]]})

(* FunctionArgumentGetter.get_caller_vas *)
get_caller_vas(function_va) ==
    get_caller_vas_from(getCallers(function_va), 1, {})

(* driver.add_hook / driver.remove_hook for every hook of DEFAULT_HOOKS *)
add_hooks(installed) == installed \o DEFAULT_HOOKS

(* A teardown that removes nothing *)
remove_hooks_none(installed) == installed

remove_hooks(installed) ==
    SelectSeq(installed, LAMBDA h : \A i \in 1..Len(DEFAULT_HOOKS) : DEFAULT_HOOKS[i] # h)

(* An observer that captures every intercepted call, whatever its target *)
apicall_any_target(contexts, target_function_va, emu_snap, callop, callpc, top_of_stack) ==
    Append(contexts, [emu_snap |-> emu_snap, return_address |-> top_of_stack,
                      decoded_at_va |-> callop.va])

(* CallMonitor.apicall; emu_snap is emu.getEmuSnap(), top_of_stack is      *)
(* self.getStackValue(emu, 0)                                              *)
apicall(contexts, target_function_va, emu_snap, callop, callpc, top_of_stack) ==
    LET return_address == top_of_stack
    IN  IF callpc = target_function_va
        THEN Append(contexts, [emu_snap |-> emu_snap, return_address |-> return_address,
                               decoded_at_va |-> callop.va])
        ELSE contexts

(* The CallMonitor created for the n-th run of a getter *)
CallMonitor(n) == [class |-> "CallMonitor", id |-> n]

(* get_all_function_contexts(function_va) is called on a new getter *)
InitCollect ==
    /\ InitHooks
    /\ IdleGuard
    /\ cstate = "called"
    /\ target \in Targets
    /\ todo = {}
    /\ cur = 0
    /\ runs = <<>>
    /\ driver_hooks = <<>>
    /\ driver_monitors = {}
    /\ function_contexts = <<>>
    /\ all_contexts = <<>>
    /\ nevents = 0
    /\ outcomes = <<>>
    /\ captured = <<>>
    /\ ngetters = 1

(* get_all_function_contexts evaluates get_caller_vas and enters its loop *)
GetCallerVas ==
    /\ cstate = "called"
    /\ todo' = get_caller_vas(target)
    /\ cstate' = "loop"
    /\ UNCHANGED <<target, cur, runs, driver_hooks, driver_monitors,
                   function_contexts, all_contexts, nevents, outcomes, captured, ngetters>>
    /\ UNCHANGED <<hookVars, guardVars>>

(* The loop takes the next caller function (a set has no fixed order) and   *)
(* get_contexts_via_monitor installs the monitor and the default hooks and  *)
(* calls driver.runFunction.                                                *)
BeginRun ==
    /\ cstate = "loop"
    /\ \E caller_va \in todo :
         /\ todo' = todo \ {caller_va}
         /\ cur' = caller_va
         /\ runs' = Append(runs, function_index[caller_va])
    /\ driver_monitors' = driver_monitors \cup {CallMonitor(Len(runs) + 1)}
    /\ driver_hooks' = add_hooks(driver_hooks)
    /\ function_contexts' = <<>>
    /\ nevents' = 0
    /\ cstate' = "run"
    /\ UNCHANGED <<target, all_contexts, outcomes, captured, ngetters>>
    /\ UNCHANGED <<hookVars, guardVars>>

(* Leaving the with block and the finally clause of get_contexts_via_monitor *)
Teardown ==
    /\ driver_hooks' = remove_hooks(driver_hooks)
    /\ driver_monitors' = driver_monitors \ {CallMonitor(Len(runs))}

(* The emulated function calls an API: the driver hands the call to its hooks. *)
(* StopEmulation unwinds runFunction; nothing in get_contexts_via_monitor or   *)
(* get_all_function_contexts catches it.                                       *)
RunApiCall ==
    /\ cstate = "run"
    /\ nevents < MaxRunEvents
    /\ \E c \in RunApiCalls :
         LET r == dispatch(driver_hooks, c.name, c.argv, HookState, <<>>)
         IN  /\ heap_addr' = r.st.heap_addr
             /\ memory_maps' = r.st.memory_maps
             /\ allocs' = r.st.allocs
             /\ data' = r.st.data
             /\ call' = [name |-> c.name, argv |-> c.argv, result |-> r.result,
                         ret |-> r.ret, tried |-> r.tried, before |-> data]
             /\ IF r.result = "StopEmulation"
                THEN /\ Teardown
                     /\ outcomes' = Append(outcomes, "StopEmulation")
                     /\ cstate' = "raised"
                ELSE /\ UNCHANGED <<driver_hooks, driver_monitors, outcomes>>
                     /\ cstate' = "run"
    /\ nevents' = nevents + 1
    /\ UNCHANGED <<ncalls, target, todo, cur, runs, function_contexts, all_contexts,
                   captured, ngetters>>
    /\ UNCHANGED guardVars

(* The emulated function executes a call instruction of its own: the driver *)
(* notifies the installed CallMonitor.                                      *)
RunCall ==
    /\ cstate = "run"
    /\ nevents < MaxRunEvents
    /\ CallMonitor(Len(runs)) \in driver_monitors
    /\ \E site \in {a \in DOMAIN function_index : function_index[a] = cur /\ a # cur} :
         \E callpc \in {F_VA, G_VA} :
            \E top_of_stack \in {parseOpcode(site).va + parseOpcode(site).size, GARBAGE} :
               LET emu_snap == [getter |-> ngetters, run |-> Len(runs), callpc |-> callpc,
                                top |-> top_of_stack]
               IN  /\ function_contexts' =
                          apicall(function_contexts, target, emu_snap, parseOpcode(site),
                                  callpc, top_of_stack)
                   /\ captured' =
                          IF callpc = target
                          THEN Append(captured, [emu_snap |-> emu_snap,
                                                 return_address |-> top_of_stack,
                                                 decoded_at_va |-> site])
                          ELSE captured
    /\ nevents' = nevents + 1
    /\ UNCHANGED <<cstate, target, todo, cur, runs, driver_hooks, driver_monitors,
                   all_contexts, outcomes, ngetters>>
    /\ UNCHANGED <<hookVars, guardVars>>

(* driver.runFunction returns: the contexts of the monitor are returned and *)
(* the loop extends all_contexts with them.                                 *)
EndRun ==
    /\ cstate = "run"
    /\ Teardown
    /\ all_contexts' = all_contexts \o function_contexts
    /\ outcomes' = Append(outcomes, "returned")
    /\ cstate' = "loop"
    /\ UNCHANGED <<target, todo, cur, runs, function_contexts, nevents, captured, ngetters>>
    /\ UNCHANGED <<hookVars, guardVars>>

(* driver.runFunction raises: the with block and the finally clause run,    *)
(* then the exception leaves get_contexts_via_monitor and the loop.         *)
FailRun ==
    /\ cstate = "run"
    /\ Teardown
    /\ outcomes' = Append(outcomes, "Exception")
    /\ cstate' = "raised"
    /\ UNCHANGED <<target, todo, cur, runs, function_contexts, all_contexts, nevents,
                   captured, ngetters>>
    /\ UNCHANGED <<hookVars, guardVars>>

(* The loop is exhausted: get_all_function_contexts returns all_contexts *)
ReturnContexts ==
    /\ cstate = "loop"
    /\ todo = {}
    /\ cstate' = "returned"
    /\ UNCHANGED <<target, todo, cur, runs, driver_hooks, driver_monitors,
                   function_contexts, all_contexts, nevents, outcomes, captured, ngetters>>
    /\ UNCHANGED <<hookVars, guardVars>>

(* get_function_contexts is called again: a new FunctionArgumentGetter with *)
(* a new emulator (no memory map, no call made yet) and a new driver;       *)
(* DEFAULT_HOOKS are the instances of the module, with their cursors.       *)
NewGetter ==
    /\ cstate \in {"returned", "raised"}
    /\ ngetters < MaxGetters
    /\ ngetters' = ngetters + 1
    /\ cstate' = "called"
    /\ target' \in Targets
    /\ todo' = {}
    /\ cur' = 0
    /\ runs' = <<>>
    /\ driver_hooks' = <<>>
    /\ driver_monitors' = {}
    /\ function_contexts' = <<>>
    /\ all_contexts' = <<>>
    /\ nevents' = 0
    /\ outcomes' = <<>>
    /\ captured' = <<>>
    /\ memory_maps' = <<>>
    /\ allocs' = <<>>
    /\ call' = NoCall
    /\ UNCHANGED <<heap_addr, data, ncalls>>
    /\ UNCHANGED guardVars

NextCollect ==
    \/ NewGetter
    \/ GetCallerVas
    \/ BeginRun
    \/ FailRun
    \/ EndRun
    \/ RunCall
    \/ RunApiCall
    \/ ReturnContexts

SpecCollect == InitCollect /\ [][NextCollect]_vars

-----------------------------------------------------------------------------
Init == InitHooks /\ IdleGuard /\ IdleCollect

Next == HandleCall

Spec == Init /\ [][Next]_vars

-----------------------------------------------------------------------------
(* Properties of the heap simulator and of the hook dispatch (Spec)        *)

Min(a, b) == IF a <= b THEN a ELSE b

(* The size a dispatched allocation call asks for *)
RequestedSize(c) ==
    IF c.name = "ntdll.RtlAllocateHeap" THEN c.argv[3] ELSE c.argv[1]

(* The step served an allocation *)
Allocated == Len(allocs') = Len(allocs) + 1

LastAlloc == allocs'[Len(allocs')]

(* C1: every base address returned by _allocate_mem is a multiple of 4096. *)
C1_BasesPageAligned ==
    \A i \in 1..Len(allocs) : allocs[i].va % PAGE_SIZE = 0

(* C2: no two memory regions mapped by the allocation hooks overlap: the   *)
(* ranges [va, va + mapped length) of any two allocations are disjoint.    *)
C2_RegionsDisjoint ==
    \A i \in 1..Len(memory_maps) : \A j \in 1..Len(memory_maps) :
        i < j =>
            \/ memory_maps[i].va + memory_maps[i].size <= memory_maps[j].va
            \/ memory_maps[j].va + memory_maps[j].size <= memory_maps[i].va

C4_ReservedAmount ==
    [][(ncalls' = ncalls + 1 /\ call'.name \in AllocNames) =>
         /\ call'.result = "handled"
         /\ \E h \in HeapHooks :
              LET s == RequestedSize(call')
                  a == heap_addr'[h] - heap_addr[h]
              IN  /\ \A g \in HeapHooks \ {h} : heap_addr'[g] = heap_addr[g]
                  /\ call'.ret = heap_addr[h]
                  /\ Min(s, MAX_ALLOCATION_SIZE) <= a
                  /\ a <= MAX_ALLOCATION_SIZE
                  /\ round(s, PAGE_SIZE) > MAX_ALLOCATION_SIZE => a = MAX_ALLOCATION_SIZE
      ]_vars

(* A request above the ceiling and a request below it whose rounded size   *)
(* is above it were both served with exactly 10 MiB.                       *)
C4_Witness ==
    /\ \E i \in 1..Len(allocs) :
          /\ allocs[i].req > MAX_ALLOCATION_SIZE
          /\ heap_addr[allocs[i].hook] >= allocs[i].va + MAX_ALLOCATION_SIZE
    /\ \E i \in 1..Len(allocs) :
          /\ allocs[i].req < MAX_ALLOCATION_SIZE
          /\ round(allocs[i].req, PAGE_SIZE) > MAX_ALLOCATION_SIZE
          /\ allocs[i].size = MAX_ALLOCATION_SIZE

(* C5: for a call name that no default hook recognizes, every hook of the  *)
(* set raises UnsupportedFunction and the dispatch ends unhandled.         *)
C5_UnknownCallUnhandled ==
    call.name \in UnknownNames =>
        /\ call.result = "unhandled"
        /\ Len(call.tried) = Len(DEFAULT_HOOKS)
        /\ \A i \in 1..Len(call.tried) : call.tried[i].outcome = "UnsupportedFunction"

(* C6: a dispatched msvcrt.memcpy(dst, src, count) reaches MemcpyHook,     *)
(* leaves at dst the count bytes that were at src before the call, returns *)
(* 0, and the dispatch reports handled.                                    *)
C6_MemcpyCopies ==
    call.name = "msvcrt.memcpy" =>
        /\ call.result = "handled"
        /\ call.ret = 0
        /\ \E i \in 1..Len(call.tried) : call.tried[i].hook = "MemcpyHook"
        /\ \A k \in 0..(call.argv[3] - 1) :
              data[call.argv[1] + k] = call.before[call.argv[2] + k]

-----------------------------------------------------------------------------
(* Properties of the return-address guard (SpecGuard)                      *)

(* posthook has run on a `ret` that lies in an indexed function *)
RetChecked ==
    /\ phase \in {"checked", "continued"}
    /\ op.mnem = "ret"
    /\ op.va \in DOMAIN function_index

Imm == IF op.opers # <<>> THEN op.opers[1] ELSE 0

(* The stack pointer the guard reads from: where the return left it, less  *)
(* the immediate of `ret imm16`.                                           *)
GuardBase == guard.ret_sp - Imm

ReturnAddressSet == get_return_vas(Emu, function_index[op.va])

(* The candidate return address the guard reads *)
Candidate == ReadPtr(stack, GuardBase - 4, pointer_size)

(* The k-th pointer-sized slot of the search window *)
Slot(k) == ReadPtr(stack, GuardBase + k * pointer_size, pointer_size)

SlotAddr(k) == GuardBase + k * pointer_size

FatalCase ==
    /\ RetChecked
    /\ Candidate \notin ReturnAddressSet
    /\ \A k \in 0..3 : Slot(k) \notin ReturnAddressSet

C8_RepairTakesFirstMatch ==
    \A k \in 0..3 :
        ( /\ RetChecked
          /\ Candidate \notin ReturnAddressSet
          /\ Slot(k) \in ReturnAddressSet
          /\ \A j \in 0..(k - 1) : Slot(j) \notin ReturnAddressSet )
        => (pc = Slot(k) /\ sp = SlotAddr(k) + pointer_size)

(* A repair where slot 0 is invalid, slot 1 matches and a later slot holds *)
(* another valid return address                                            *)
C8_Witness ==
    /\ RetChecked
    /\ Candidate \notin ReturnAddressSet
    /\ Slot(0) \notin ReturnAddressSet
    /\ Slot(1) \in ReturnAddressSet
    /\ Slot(3) \in ReturnAddressSet
    /\ Slot(3) # Slot(1)
    /\ pc = Slot(1)
    /\ sp = SlotAddr(2)

(* C9: when the return address that the return popped from the top of the *)
(* stack is valid, the guard leaves program counter and stack pointer as   *)
(* the return instruction left them, with or without an immediate.         *)
C9_ValidReturnUntouched ==
    (RetChecked /\ pointer_size = 4 /\ guard.ret_pc \in ReturnAddressSet) =>
        (pc = guard.ret_pc /\ sp = guard.ret_sp)

-----------------------------------------------------------------------------
(* Properties of the context collection (SpecCollect)                      *)

ResolvedCallerFunctions(t) ==
    { function_index[getCallers(t)[i]] :
        i \in { n \in 1..Len(getCallers(t)) : getCallers(t)[n] \in DOMAIN function_index } }

(* C10: a collection starts exactly one run per distinct caller function   *)
(* of the target: no function is run twice and every resolved caller       *)
(* function is run.                                                        *)
C10_OneRunPerCallerFunction ==
    cstate \in {"returned", "raised"} =>
        /\ \A i \in 1..Len(runs) : \A j \in 1..Len(runs) : runs[i] = runs[j] => i = j
        /\ { runs[i] : i \in 1..Len(runs) } = ResolvedCallerFunctions(target)

(* The outcome o has been recorded for a run of the current collection *)
HasOutcome(o) == \E i \in 1..Len(outcomes) : outcomes[i] = o

(* C11: when the run of one caller function fails, the collection does not *)
(* fail as a whole: it goes on with the remaining caller functions and     *)
(* returns normally.                                                       *)
C11_FailureIsolated ==
    HasOutcome("Exception") => cstate \in {"loop", "run", "returned"}

(* C12: whenever no run is in progress, every run that was started has     *)
(* left its scope, by whichever exit path, and the driver's hook list and  *)
(* monitor list are what they were before the run (empty).                 *)
C12_ScopedTeardown ==
    cstate # "run" =>
        /\ Len(outcomes) = Len(runs)
        /\ driver_hooks = <<>>
        /\ driver_monitors = {}

C12_Witness ==
    /\ cstate = "raised"
    /\ Len(runs) = 2
    /\ outcomes[1] = "returned"
    /\ outcomes[2] = "StopEmulation"
    /\ ngetters = 2

(* C13: the termination signal of kernel32.ExitProcess halts only its own  *)
(* run: the contexts captured before it are kept and the collection goes   *)
(* on with the subsequent caller functions.                                *)
C13_ExitHaltsOnlyItsRun ==
    HasOutcome("StopEmulation") =>
        /\ cstate \in {"loop", "run", "returned"}
        /\ cstate # "run" => Len(all_contexts) = Len(captured)

(* C14: a call site of the target that the function index cannot resolve   *)
(* starts no run and raises nothing, and the caller function of every      *)
(* other call site is collected and emulated.                              *)
C14_UnresolvedCallSkipped ==
    (\E n \in 1..Len(getCallers(target)) : getCallers(target)[n] \notin DOMAIN function_index) =>
        /\ cstate # "called" =>
              todo \cup { runs[i] : i \in 1..Len(runs) } = ResolvedCallerFunctions(target)
        /\ cstate \in {"returned", "raised"} =>
              \A f \in ResolvedCallerFunctions(target) : \E i \in 1..Len(runs) : runs[i] = f

(* C15: during every run of the collection the return-address guard       *)
(* (ApiMonitor) is installed on the driver.                                *)
C15_GuardInstalledDuringRun ==
    cstate = "run" => \E m \in driver_monitors : m.class = "ApiMonitor"

(* C16: every session (a run of one caller function, or a collection on a  *)
(* new getter) starts with every heap cursor at the fixed base, and a      *)
(* cursor is never decremented.                                            *)
C16_SessionStartsAtBase ==
    /\ (cstate = "run" /\ nevents = 0) => \A h \in HeapHooks : heap_addr[h] = HEAP_BASE
    /\ cstate = "called" => \A h \in HeapHooks : heap_addr[h] = HEAP_BASE
    /\ \A h \in HeapHooks : heap_addr[h] >= HEAP_BASE

(* C17: once the collection has ended, every context an observer captured  *)
(* is in the overall result, the contexts of aborted runs included.        *)
C17_PartialContextsKept ==
    cstate \in {"returned", "raised"} => all_contexts = captured

(* The contexts the observer of run n of the current getter has to hold *)
CapturedIn(n) ==
    SelectSeq(captured, LAMBDA c : c.emu_snap.run = n)

(* A context records an intercepted call to the target made in run n *)
ContextOfRun(c, n) ==
    /\ c.emu_snap.getter = ngetters
    /\ c.emu_snap.run = n
    /\ c.emu_snap.callpc = target
    /\ c.return_address = c.emu_snap.top
    /\ c.decoded_at_va \in DOMAIN function_index
    /\ function_index[c.decoded_at_va] = runs[n]

(* C18: every context of the result and of the running observer was        *)
(* captured at an intercepted call to the target in exactly one run, with  *)
(* the top of the stack as return address and the address of the call      *)
(* instruction; calls to other targets add nothing, and the list of a run  *)
(* holds the contexts of that run only.                                    *)
C18_ContextsAreInterceptedTargetCalls ==
    /\ \A i \in 1..Len(all_contexts) :
          \E n \in 1..Len(outcomes) :
             outcomes[n] = "returned" /\ ContextOfRun(all_contexts[i], n)
    /\ cstate = "run" =>
          /\ function_contexts = CapturedIn(Len(runs))
          /\ \A i \in 1..Len(function_contexts) :
                ContextOfRun(function_contexts[i], Len(runs))
    /\ all_contexts =
          SelectSeq(captured, LAMBDA c : c.emu_snap.run <= Len(outcomes)
                                         /\ outcomes[c.emu_snap.run] = "returned")

C18_Witness ==
    /\ cstate = "returned"
    /\ Len(all_contexts) = 3
    /\ all_contexts[1].emu_snap.run # all_contexts[3].emu_snap.run
    /\ all_contexts[1].return_address = GARBAGE
    /\ all_contexts[3].return_address # GARBAGE

-----------------------------------------------------------------------------
(* The address after each call instruction that targets f, written out     *)
(* from the layout of the workspace.                                       *)
AddressesAfterCalls(f) ==
    IF f = F_VA
    THEN {Ptr(CALL_1 + 5), Ptr(CALL_2 + 5), Ptr(CALL_3 + 2), Ptr(CALL_4 + 5)}
    ELSE {}

(* C19: the valid return addresses of a function are exactly the addresses *)
(* after the call instructions of its static callers, so there is one when *)
(* the function has a static caller; in a function without static callers  *)
(* every check of a return ends in a failed repair, which leaves the       *)
(* program counter and the stack pointer it scanned from as they were.     *)
C19_ReturnAddressSet ==
    RetChecked =>
        /\ ReturnAddressSet = AddressesAfterCalls(function_index[op.va])
        /\ getCallers(function_index[op.va]) # <<>> => ReturnAddressSet # {}
        /\ getCallers(function_index[op.va]) = <<>> =>
              /\ guard.verdict = "failed"
              /\ pc = guard.ret_pc
              /\ sp = GuardBase

C19_Witness ==
    /\ RetChecked
    /\ function_index[op.va] = G_VA
    /\ Imm = 8
    /\ Slot(0) = Ptr(CALL_1 + 5)
    /\ Candidate = Ptr(CALL_2 + 5)
    /\ phase = "continued"

====
